---- MODULE Spec2Model ----
(***************************************************************************)
(* Model of amplify/custom/pipeline/resource.ts (defineFrontend,           *)
(* definePipeline) and of the backend.ts wiring that calls them.           *)
(*                                                                         *)
(* Synthesis: the two functions build construct descriptions (records).    *)
(* Values the provider assigns at deployment (bucket name, distribution    *)
(* id and domain, account) are tokens, as in the CDK: Token(construct,     *)
(* attribute).  A string that may hold tokens is the sequence of its       *)
(* parts, Lit(text) or Token(...).  An optional value is a sequence of     *)
(* length 0 (undefined) or 1.                                              *)
(*                                                                         *)
(* Execution: the declared pipeline is run by the managed services the     *)
(* description is written for.  Their semantics (stages in declared order, *)
(* build phases install, pre_build, build, post_build) are taken from the  *)
(* specification, sections 5 and 6; what they interpret (stages, actions,  *)
(* artifacts, command strings) is taken from the source.                   *)
(***************************************************************************)
EXTENDS Naturals, Sequences, FiniteSets, TLC

VARIABLES
    frontends,       \* FrontendOutput of each defineFrontend call, in call order
    cfnOutputs,      \* CfnOutput constructs: construct -> value
    pipelineProps,   \* optional: the PipelineProps definePipeline was called with
    backendProject,  \* optional: the 'BackendBuild' PipelineProject
    frontendProject, \* optional: the 'FrontendBuild' PipelineProject
    pipeline,        \* optional: the 'Pipeline' construct with its stages
    calls,           \* the calls made in this synthesis, with their inputs
    previous,        \* optional: calls and description of the previous synthesis
    replay,          \* calls of the previous synthesis still to be repeated
    execution,       \* the pipeline execution: status, stage, action state
    store,           \* artifact store of the execution: artifact name -> files
    build,           \* optional: the running CodeBuild job
    started,         \* action names started in the execution, in order
    completed,       \* action names that succeeded in the execution, in order
    ran              \* commands run in the execution: [action, command], in order

synthVars == <<frontends, cfnOutputs, pipelineProps, backendProject,
               frontendProject, pipeline, calls>>
rerunVars == <<previous, replay>>
execVars == <<execution, store, build, started, completed, ran>>
vars == <<synthVars, rerunVars, execVars>>

\* ------------------------------------------------------------------ bounds

\* defineFrontend calls (one stack each) before definePipeline is called
MaxFrontends == 2

\* ------------------------------------------------------------------ inputs

Undefined == <<>>
Some(v) == <<v>>

BucketNames == {"my-site-bucket"}
FrontendPropsInputs ==
    {Undefined} \cup {Some([bucketName |-> Undefined])}
                \cup {Some([bucketName |-> Some(b)]) : b \in BucketNames}

GithubOwners == {"adrianjoshua-strutt", "acme"}
GithubRepos == {"amplify-vite-react-custom-pipeline", "site"}
GithubBranches == {"main", "dev"}
SecretNames == {"github-token"}
StackNames == {"amplify-vite-react-custom-pipeline", "acme-site"}

\* ------------------------------------------------------------ constructs

FrontendStack(k) == [kind |-> "Frontend", n |-> k]
PipelineStack == [kind |-> "Pipeline", n |-> 1]
Construct(stack, id) == [stack |-> stack, id |-> id]
\* A string is the sequence of its parts: literal text and tokens.
Token(construct, attr) == [ref |-> construct, attr |-> attr]
Lit(text) == [lit |-> text]
IsToken(part) == "ref" \in DOMAIN part

\* --------------------------------------------------------- defineFrontend

\* props?.bucketName
OptBucketName(props) ==
    IF props = Undefined THEN Undefined ELSE props[1].bucketName

\* faulty variant: the teardown settings are applied only to auto-named buckets
BucketRetainNamed(stack, props) ==
    [ construct         |-> Construct(stack, "FrontendBucket"),
      bucketName        |-> OptBucketName(props),
      blockPublicAccess |-> "BLOCK_ALL",
      removalPolicy     |-> IF OptBucketName(props) = Undefined THEN "DESTROY" ELSE "RETAIN",
      autoDeleteObjects |-> OptBucketName(props) = Undefined ]

Bucket(stack, props) ==
    [ construct         |-> Construct(stack, "FrontendBucket"),
      bucketName        |-> OptBucketName(props),
      blockPublicAccess |-> "BLOCK_ALL",
      removalPolicy     |-> "DESTROY",
      autoDeleteObjects |-> TRUE ]

Distribution(stack, bucket) ==
    [ construct         |-> Construct(stack, "Distribution"),
      defaultBehavior   |->
          [ origin |-> [ kind   |-> "S3BucketOrigin.withOriginAccessControl",
                         bucket |-> bucket.construct ],
            viewerProtocolPolicy |-> "REDIRECT_TO_HTTPS" ],
      defaultRootObject |-> "index.html",
      errorResponses    |-> << [ httpStatus         |-> 404,
                                 responseHttpStatus |-> 200,
                                 responsePagePath   |-> "/index.html" ] >> ]

Url(distribution) == <<Lit("https://"), Token(distribution.construct, "distributionDomainName")>>

FrontendOutput(stack, props) ==
    LET bucket == Bucket(stack, props)
        distribution == Distribution(stack, bucket)
    IN  [ bucket |-> bucket, distribution |-> distribution, url |-> Url(distribution) ]

FrontendCfnOutputs(stack, out) ==
    (Construct(stack, "CloudFrontURL") :> out.url)
    @@ (Construct(stack, "BucketName") :> <<Token(out.bucket.construct, "bucketName")>>)

\* One call of defineFrontend on a fresh stack.
defineFrontendCall(props) ==
    LET stack == FrontendStack(Len(frontends) + 1)
        out == FrontendOutput(stack, props)
    IN  /\ pipelineProps = Undefined
        /\ Len(frontends) < MaxFrontends
        /\ frontends' = Append(frontends, out)
        /\ cfnOutputs' = FrontendCfnOutputs(stack, out) @@ cfnOutputs
        /\ calls' = Append(calls, [fn |-> "defineFrontend", props |-> props, frontend |-> 0])
        /\ UNCHANGED <<pipelineProps, backendProject, frontendProject, pipeline>>
        /\ UNCHANGED execVars

\* --------------------------------------------------------- definePipeline

\* the fields of PipelineProps the caller writes out; the frontend field is the
\* result of one of the defineFrontend calls made before
PipelineInputs ==
    [ githubOwner           : GithubOwners,
      githubRepo            : GithubRepos,
      githubBranch          : GithubBranches,
      githubTokenSecretName : SecretNames,
      stackName             : StackNames ]

PipelineProps(in, frontend) ==
    [ githubOwner           |-> in.githubOwner,
      githubRepo            |-> in.githubRepo,
      githubBranch          |-> in.githubBranch,
      githubTokenSecretName |-> in.githubTokenSecretName,
      stackName             |-> in.stackName,
      frontend              |-> frontend ]

\* secretsmanager.Secret.fromSecretNameV2(stack, 'GitHubToken', name)
githubToken(secretName) ==
    [ construct  |-> Construct(PipelineStack, "GitHubToken"),
      secretName |-> secretName ]

sourceOutput == [artifactName |-> "SourceOutput"]
\* faulty variant: the artifact is renamed and the copy command is not
backendOutputRenamed == [artifactName |-> "BackendArtifact"]
backendOutput == [artifactName |-> "BackendOutput"]

BuildEnvironment == [buildImage |-> "STANDARD_7_0", computeType |-> "MEDIUM"]

\* faulty variant: the backend build uploads its whole workspace
BackendBuildSpecAllFiles ==
    [ version   |-> "0.2",
      phases    |->
          [ install |-> [ runtimeVersions |-> [nodejs |-> 20],
                          commands |-> <<"npm ci", "npx ampx --version">> ],
            build   |-> [ commands |->
                <<"echo \"Deploying backend with --custom-pipeline...\"",
                  "npx ampx pipeline-deploy --branch $BRANCH_NAME --custom-pipeline --stack-name $STACK_NAME --outputs-out-dir . --outputs-format json",
                  "cat amplify_outputs.json">> ] ],
      artifacts |-> [files |-> <<"amplify_outputs.json", "package.json">>],
      cache     |-> [paths |-> <<"node_modules/**/*">>] ]

BackendBuildSpec ==
    [ version   |-> "0.2",
      phases    |->
          [ install |-> [ runtimeVersions |-> [nodejs |-> 20],
                          commands |-> <<"npm ci", "npx ampx --version">> ],
            build   |-> [ commands |->
                <<"echo \"Deploying backend with --custom-pipeline...\"",
                  "npx ampx pipeline-deploy --branch $BRANCH_NAME --custom-pipeline --stack-name $STACK_NAME --outputs-out-dir . --outputs-format json",
                  "cat amplify_outputs.json">> ] ],
      artifacts |-> [files |-> <<"amplify_outputs.json">>],
      cache     |-> [paths |-> <<"node_modules/**/*">>] ]

BackendPolicy ==
    [ actions   |-> <<"cloudformation:*", "iam:*", "cognito-idp:*", "appsync:*",
                      "dynamodb:*", "lambda:*", "s3:*", "ssm:*",
                      "secretsmanager:GetSecretValue", "logs:*", "sts:AssumeRole">>,
      resources |-> << <<Lit("*")>> >> ]

BackendProjectName(stackName) == stackName \o "-backend"

BackendProject(props) ==
    [ construct            |-> Construct(PipelineStack, "BackendBuild"),
      projectName          |-> BackendProjectName(props.stackName),
      environment          |-> BuildEnvironment,
      environmentVariables |-> [ BRANCH_NAME |-> [value |-> <<Lit(props.githubBranch)>>],
                                 STACK_NAME  |-> [value |-> <<Lit(props.stackName)>>] ],
      buildSpec            |-> BackendBuildSpec,
      rolePolicy           |-> <<BackendPolicy>> ]

\* faulty variant: the cache is invalidated before the bucket is synchronized
FrontendBuildSpecInvalidateFirst ==
    [ version |-> "0.2",
      phases  |->
          [ install    |-> [ runtimeVersions |-> [nodejs |-> 20],
                             commands |-> <<"npm ci">> ],
            pre_build  |-> [ commands |->
                <<"cp $CODEBUILD_SRC_DIR_BackendOutput/amplify_outputs.json .",
                  "cat amplify_outputs.json">> ],
            build      |-> [ commands |-> <<"npm run build">> ],
            post_build |-> [ commands |->
                <<"aws cloudfront create-invalidation --distribution-id $DISTRIBUTION_ID --paths \"/*\"",
                  "aws s3 sync dist/ s3://$BUCKET_NAME/ --delete">> ] ] ]

FrontendBuildSpec ==
    [ version |-> "0.2",
      phases  |->
          [ install    |-> [ runtimeVersions |-> [nodejs |-> 20],
                             commands |-> <<"npm ci">> ],
            pre_build  |-> [ commands |->
                <<"cp $CODEBUILD_SRC_DIR_BackendOutput/amplify_outputs.json .",
                  "cat amplify_outputs.json">> ],
            build      |-> [ commands |-> <<"npm run build">> ],
            post_build |-> [ commands |->
                <<"aws s3 sync dist/ s3://$BUCKET_NAME/ --delete",
                  "aws cloudfront create-invalidation --distribution-id $DISTRIBUTION_ID --paths \"/*\"">> ] ] ]

\* frontend.bucket.grantReadWrite(frontendProject): the library's statement of
\* object read/write actions on the bucket and on the objects in it.
grantReadWrite(bucket) ==
    [ actions   |-> <<"s3:GetObject*", "s3:GetBucket*", "s3:List*",
                      "s3:DeleteObject*", "s3:PutObject*", "s3:Abort*">>,
      resources |-> << <<Token(bucket.construct, "bucketArn")>>,
                       <<Token(bucket.construct, "bucketArn"), Lit("/*")>> >> ]

\* faulty variant: the invalidation grant covers every distribution
InvalidationPolicyAll(frontend) ==
    [ actions   |-> <<"cloudfront:CreateInvalidation">>,
      resources |-> << <<Lit("*")>> >> ]

InvalidationPolicy(frontend) ==
    [ actions   |-> <<"cloudfront:CreateInvalidation">>,
      resources |-> << <<Lit("arn:aws:cloudfront::"),
                         Token(PipelineStack, "account"),
                         Lit(":distribution/"),
                         Token(frontend.distribution.construct, "distributionId")>> >> ]

FrontendEnvironmentVariables(frontend) ==
    [ BUCKET_NAME     |-> [value |-> <<Token(frontend.bucket.construct, "bucketName")>>],
      DISTRIBUTION_ID |-> [value |-> <<Token(frontend.distribution.construct, "distributionId")>>] ]

FrontendRolePolicy(frontend) ==
    <<grantReadWrite(frontend.bucket), InvalidationPolicy(frontend)>>

\* faulty variant: the suffix is copied from the backend project
FrontendProjectNameCopied(stackName) == stackName \o "-backend"
FrontendProjectName(stackName) == stackName \o "-frontend"

FrontendProject(props) ==
    [ construct            |-> Construct(PipelineStack, "FrontendBuild"),
      projectName          |-> FrontendProjectName(props.stackName),
      environment          |-> BuildEnvironment,
      environmentVariables |-> FrontendEnvironmentVariables(props.frontend),
      buildSpec            |-> FrontendBuildSpec,
      rolePolicy           |-> FrontendRolePolicy(props.frontend) ]

\* faulty variant: the name carries a counter of the syntheses run so far
PipelineNameCounted(stackName) ==
    stackName \o (IF previous = Undefined THEN "-pipeline" ELSE "-pipeline-2")
PipelineName(stackName) == stackName \o "-pipeline"

\* new codepipeline.Pipeline(stack, 'Pipeline', { pipelineName })
NewPipeline(props) ==
    [ construct    |-> Construct(PipelineStack, "Pipeline"),
      pipelineName |-> PipelineName(props.stackName),
      stages       |-> <<>> ]

\* pipeline.addStage: the stage is appended after the stages added before
addStage(p, stage) == [p EXCEPT !.stages = Append(@, stage)]

GitHubAction(props) ==
    [ kind       |-> "GitHubSource",
      actionName |-> "GitHub",
      owner      |-> props.githubOwner,
      repo       |-> props.githubRepo,
      branch     |-> props.githubBranch,
      oauthToken |-> [secret |-> githubToken(props.githubTokenSecretName), attr |-> "secretValue"],
      output     |-> sourceOutput,
      trigger    |-> "WEBHOOK" ]

BackendAction ==
    [ kind       |-> "CodeBuild",
      actionName |-> "Backend",
      project    |-> Construct(PipelineStack, "BackendBuild"),
      input      |-> sourceOutput,
      outputs    |-> <<backendOutput>> ]

\* faulty variant: the two input artifacts are swapped
FrontendActionSwapped ==
    [ kind        |-> "CodeBuild",
      actionName  |-> "Frontend",
      project     |-> Construct(PipelineStack, "FrontendBuild"),
      input       |-> backendOutput,
      extraInputs |-> <<sourceOutput>> ]

FrontendAction ==
    [ kind        |-> "CodeBuild",
      actionName  |-> "Frontend",
      project     |-> Construct(PipelineStack, "FrontendBuild"),
      input       |-> sourceOutput,
      extraInputs |-> <<backendOutput>> ]

SourceStage(props) == [stageName |-> "Source", actions |-> <<GitHubAction(props)>>]
DeployBackendStage == [stageName |-> "DeployBackend", actions |-> <<BackendAction>>]
DeployFrontendStage == [stageName |-> "DeployFrontend", actions |-> <<FrontendAction>>]

\* faulty variant: the frontend stage is added before the backend stage
PipelineFrontendFirst(props) ==
    addStage(addStage(addStage(NewPipeline(props),
                               SourceStage(props)),
                      DeployFrontendStage),
             DeployBackendStage)

\* the pipeline after the three addStage calls
Pipeline(props) ==
    addStage(addStage(addStage(NewPipeline(props),
                               SourceStage(props)),
                      DeployBackendStage),
             DeployFrontendStage)

PipelineCfnOutputs(p) ==
    Construct(PipelineStack, "PipelineName") :> <<Token(p.construct, "pipelineName")>>

\* One call of definePipeline, with the result of the k-th defineFrontend call.
definePipelineCall(in, k) ==
    /\ pipelineProps = Undefined
    /\ k \in 1..Len(frontends)
    /\ LET props == PipelineProps(in, frontends[k])
       IN  /\ pipelineProps' = Some(props)
           /\ backendProject' = Some(BackendProject(props))
           /\ frontendProject' = Some(FrontendProject(props))
           /\ pipeline' = Some(Pipeline(props))
           /\ cfnOutputs' = PipelineCfnOutputs(Pipeline(props)) @@ cfnOutputs
    /\ calls' = Append(calls, [fn |-> "definePipeline", props |-> in, frontend |-> k])
    /\ UNCHANGED frontends
    /\ UNCHANGED execVars

\* accessors of the assembled description
ActionInputs(a) ==
    (IF "input" \in DOMAIN a THEN <<a.input>> ELSE <<>>)
    \o (IF "extraInputs" \in DOMAIN a THEN a.extraInputs ELSE <<>>)
ActionOutputs(a) ==
    IF "outputs" \in DOMAIN a THEN a.outputs
    ELSE IF "output" \in DOMAIN a THEN <<a.output>> ELSE <<>>

\* ------------------------------------------------------- command strings

\* index of the first occurrence of character ch in s at or after i; Len(s)+1 if none
RECURSIVE IndexOf(_, _, _)
IndexOf(s, ch, i) ==
    IF i > Len(s) THEN Len(s) + 1
    ELSE IF SubSeq(s, i, i) = ch THEN i
    ELSE IndexOf(s, ch, i + 1)

\* the words of a command line, split at single spaces
RECURSIVE Words(_)
Words(s) ==
    IF Len(s) = 0 THEN <<>>
    ELSE LET j == IndexOf(s, " ", 1)
         IN  IF j = 1 THEN Words(SubSeq(s, 2, Len(s)))
             ELSE <<SubSeq(s, 1, j - 1)>> \o Words(SubSeq(s, j + 1, Len(s)))

StartsWith(s, prefix) ==
    Len(s) >= Len(prefix) /\ SubSeq(s, 1, Len(prefix)) = prefix

\* "$VAR/file" -> [var |-> "VAR", file |-> "file"]
VarPath(word) ==
    LET j == IndexOf(word, "/", 1)
    IN  [var |-> SubSeq(word, 2, j - 1), file |-> SubSeq(word, j + 1, Len(word))]

\* the word after option opt in the words w (Undefined when absent)
OptionValue(w, opt) ==
    LET at == {i \in 1..Len(w) - 1 : w[i] = opt}
    IN  IF at = {} THEN Undefined ELSE Some(w[(CHOOSE i \in at : TRUE) + 1])

\* ---------------------------------------------------------- build phases

\* the build service runs the phases a spec declares in this order
PhaseOrder == <<"install", "pre_build", "build", "post_build">>

RECURSIVE PhaseCommands(_, _)
PhaseCommands(spec, phaseNames) ==
    IF phaseNames = <<>> THEN <<>>
    ELSE LET ph == Head(phaseNames)
             cmds == IF ph \in DOMAIN spec.phases THEN spec.phases[ph].commands ELSE <<>>
         IN  [i \in 1..Len(cmds) |-> [phase |-> ph, command |-> cmds[i]]]
             \o PhaseCommands(spec, Tail(phaseNames))

\* the commands of a build spec with their phases, in execution order
Commands(spec) == PhaseCommands(spec, PhaseOrder)

\* files of a checkout of the repository
SourceFiles == {"package.json", "src", "amplify"}

\* the name the deployment tool gives its outputs file for a format
OutputsFileName(format) == "amplify_outputs." \o format

\* what a command needs in the job to succeed
CanRun(cmd, job) ==
    LET w == Words(cmd)
    IN  CASE w[1] = "npm" /\ w[2] = "ci" -> "package.json" \in job.workspace
          [] w[1] = "npm" /\ w[2] = "run" -> "node_modules" \in job.workspace
          [] w[1] = "npx" -> "node_modules" \in job.workspace
          [] w[1] = "cat" -> w[2] \in job.workspace
          [] w[1] = "cp" ->
                LET src == VarPath(w[2])
                IN  src.var \in DOMAIN job.dirs /\ src.file \in job.dirs[src.var]
          [] w[1] = "aws" /\ w[2] = "s3" -> "dist" \in job.workspace
          [] OTHER -> TRUE

\* the files in the job's workspace after a command succeeded
WorkspaceAfter(cmd, job) ==
    LET w == Words(cmd)
    IN  CASE w[1] = "npm" /\ w[2] = "ci" -> job.workspace \cup {"node_modules"}
          [] w[1] = "npm" /\ w[2] = "run" -> job.workspace \cup {"dist"}
          [] w[1] = "npx" /\ Len(w) > 2 /\ w[3] = "pipeline-deploy" ->
                LET fmt == OptionValue(w, "--outputs-format")
                IN  IF OptionValue(w, "--outputs-out-dir") = Some(".") /\ fmt # Undefined
                    THEN job.workspace \cup {OutputsFileName(fmt[1])}
                    ELSE job.workspace
          [] w[1] = "cp" -> job.workspace \cup {VarPath(w[2]).file}
          [] OTHER -> job.workspace

\* ------------------------------------------------------ pipeline execution

Stages == pipeline[1].stages
StageActions(i) == {Stages[i].actions[j] : j \in 1..Len(Stages[i].actions)}
ArtifactNames(artifacts) == {artifacts[i].artifactName : i \in 1..Len(artifacts)}

ProjectOf(a) ==
    IF a.project = backendProject[1].construct THEN backendProject[1] ELSE frontendProject[1]

Idle == [status |-> "Idle", stage |-> 0, done |-> {}, current |-> Undefined]

\* the files of an artifact in the store of the execution (none before it is produced)
Stored(artifact) ==
    IF artifact.artifactName \in DOMAIN store THEN store[artifact.artifactName] ELSE {}

\* the directory variables of the extra input artifacts of a build action
RECURSIVE SecondaryDirs(_)
SecondaryDirs(extra) ==
    IF extra = <<>> THEN <<>>
    ELSE (("CODEBUILD_SRC_DIR_" \o Head(extra).artifactName) :> Stored(Head(extra)))
         @@ SecondaryDirs(Tail(extra))

NewJob(a) ==
    [ action    |-> a.actionName,
      remaining |-> Commands(ProjectOf(a).buildSpec),
      workspace |-> Stored(a.input),
      dirs      |-> SecondaryDirs(IF "extraInputs" \in DOMAIN a THEN a.extraInputs ELSE <<>>),
      failed    |-> FALSE ]

\* the execution after action `name` of the current stage succeeded
AfterAction(name) ==
    LET done == execution.done \cup {name}
        all == {a.actionName : a \in StageActions(execution.stage)}
    IN  IF done # all
        THEN [execution EXCEPT !.done = done, !.current = Undefined]
        ELSE IF execution.stage = Len(Stages)
        THEN [execution EXCEPT !.status = "Succeeded", !.done = done, !.current = Undefined]
        ELSE [execution EXCEPT !.stage = @ + 1, !.done = {}, !.current = Undefined]

Failed == [execution EXCEPT !.status = "Failed", !.current = Undefined]

\* a push to the configured branch starts an execution at the first stage
Trigger ==
    /\ pipeline # Undefined
    /\ previous = Undefined
    /\ execution.status # "InProgress"
    /\ execution' = [status |-> "InProgress", stage |-> 1, done |-> {}, current |-> Undefined]
    /\ store' = <<>>
    /\ build' = Undefined
    /\ started' = <<>>
    /\ completed' = <<>>
    /\ ran' = <<>>
    /\ UNCHANGED <<synthVars, rerunVars>>

\* an action of the current stage starts; a build action gets a job with its
\* input artifacts as they are in the store
StartAction ==
    /\ execution.status = "InProgress"
    /\ execution.current = Undefined
    /\ \E a \in StageActions(execution.stage) :
        /\ a.actionName \notin execution.done
        /\ execution' = [execution EXCEPT !.current = Some(a.actionName)]
        /\ started' = Append(started, a.actionName)
        /\ build' = IF a.kind = "CodeBuild" THEN Some(NewJob(a)) ELSE Undefined
    /\ UNCHANGED <<store, completed, ran>>
    /\ UNCHANGED <<synthVars, rerunVars>>

\* the running source action checks the branch out into its output artifact
SourceSucceeds ==
    /\ execution.current # Undefined
    /\ build = Undefined
    /\ \E a \in StageActions(execution.stage) :
        /\ a.actionName = execution.current[1]
        /\ store' = [n \in ArtifactNames(ActionOutputs(a)) |-> SourceFiles] @@ store
        /\ completed' = Append(completed, a.actionName)
        /\ execution' = AfterAction(a.actionName)
    /\ UNCHANGED <<build, started, ran>>
    /\ UNCHANGED <<synthVars, rerunVars>>

SourceFails ==
    /\ execution.current # Undefined
    /\ build = Undefined
    /\ execution' = Failed
    /\ UNCHANGED <<store, build, started, completed, ran>>
    /\ UNCHANGED <<synthVars, rerunVars>>

\* the next command of the running build succeeds
RunCommand ==
    /\ build # Undefined
    /\ build[1].remaining # <<>>
    /\ LET job == build[1]
           next == Head(job.remaining)
       IN  /\ CanRun(next.command, job)
           /\ build' = Some([job EXCEPT !.remaining = Tail(@),
                                        !.workspace = WorkspaceAfter(next.command, job)])
           /\ ran' = Append(ran, [action |-> job.action, phase |-> next.phase,
                                  command |-> next.command, ok |-> TRUE])
    /\ UNCHANGED <<execution, store, started, completed>>
    /\ UNCHANGED <<synthVars, rerunVars>>

\* the next command of the running build fails: the rest of its phase is
\* skipped; after a failure in the build phase the post_build phase may
\* still run, after a failure elsewhere the build ends
FailCommand ==
    /\ build # Undefined
    /\ build[1].remaining # <<>>
    /\ LET job == build[1]
           next == Head(job.remaining)
           post == SelectSeq(Tail(job.remaining), LAMBDA c : c.phase = "post_build")
       IN  /\ \E rest \in {<<>>} \cup (IF next.phase = "build" THEN {post} ELSE {}) :
                build' = Some([job EXCEPT !.remaining = rest, !.failed = TRUE])
           /\ ran' = Append(ran, [action |-> job.action, phase |-> next.phase,
                                  command |-> next.command, ok |-> FALSE])
    /\ UNCHANGED <<execution, store, started, completed>>
    /\ UNCHANGED <<synthVars, rerunVars>>

\* the files a build spec declares as its output artifact
ArtifactFiles(spec) ==
    IF "artifacts" \in DOMAIN spec
    THEN {spec.artifacts.files[i] : i \in 1..Len(spec.artifacts.files)}
    ELSE {}

\* the build has run its phases: it fails when a command failed or a declared
\* artifact file is missing, otherwise its output artifacts are stored
BuildCompletes ==
    /\ build # Undefined
    /\ build[1].remaining = <<>>
    /\ \E a \in StageActions(execution.stage) :
        /\ a.actionName = build[1].action
        /\ LET files == ArtifactFiles(ProjectOf(a).buildSpec)
           IN  IF build[1].failed \/ ~(files \subseteq build[1].workspace)
               THEN /\ execution' = Failed
                    /\ UNCHANGED <<store, completed>>
               ELSE /\ execution' = AfterAction(a.actionName)
                    /\ store' = [n \in ArtifactNames(ActionOutputs(a)) |-> files] @@ store
                    /\ completed' = Append(completed, a.actionName)
    /\ build' = Undefined
    /\ UNCHANGED <<started, ran>>
    /\ UNCHANGED <<synthVars, rerunVars>>

\* ------------------------------------------------------------ the program

Init ==
    /\ frontends = <<>>
    /\ cfnOutputs = <<>>
    /\ pipelineProps = Undefined
    /\ backendProject = Undefined
    /\ frontendProject = Undefined
    /\ pipeline = Undefined
    /\ calls = <<>>
    /\ previous = Undefined
    /\ replay = <<>>
    /\ execution = Idle
    /\ store = <<>>
    /\ build = Undefined
    /\ started = <<>>
    /\ completed = <<>>
    /\ ran = <<>>

defineFrontend ==
    /\ previous = Undefined
    /\ \E props \in FrontendPropsInputs : defineFrontendCall(props)
    /\ UNCHANGED rerunVars

definePipeline ==
    /\ previous = Undefined
    /\ \E in \in PipelineInputs, k \in 1..Len(frontends) : definePipelineCall(in, k)
    /\ UNCHANGED rerunVars

Next ==
    \/ defineFrontend
    \/ definePipeline
    \/ Trigger
    \/ StartAction
    \/ SourceSucceeds
    \/ SourceFails
    \/ RunCommand
    \/ FailCommand
    \/ BuildCompletes

Spec == Init /\ [][Next]_vars

\* ------------------------------------------------------------ re-synthesis

\* the configuration description a synthesis has assembled
Description ==
    [ frontends       |-> frontends,
      cfnOutputs      |-> cfnOutputs,
      pipelineProps   |-> pipelineProps,
      backendProject  |-> backendProject,
      frontendProject |-> frontendProject,
      pipeline        |-> pipeline ]

\* the program is run again from the start, to make the same calls
Resynth ==
    /\ pipeline # Undefined
    /\ previous = Undefined
    /\ previous' = Some([calls |-> calls, description |-> Description])
    /\ replay' = calls
    /\ frontends' = <<>>
    /\ cfnOutputs' = <<>>
    /\ pipelineProps' = Undefined
    /\ backendProject' = Undefined
    /\ frontendProject' = Undefined
    /\ pipeline' = Undefined
    /\ calls' = <<>>
    /\ UNCHANGED execVars

\* the second run makes the next call of the first run, with the same inputs
ReplayCall ==
    /\ replay # <<>>
    /\ LET c == Head(replay)
       IN  IF c.fn = "defineFrontend"
           THEN defineFrontendCall(c.props)
           ELSE definePipelineCall(c.props, c.frontend)
    /\ replay' = Tail(replay)
    /\ UNCHANGED previous

NextRerun ==
    \/ defineFrontend
    \/ definePipeline
    \/ Resynth
    \/ ReplayCall

SpecRerun == Init /\ [][NextRerun]_vars

\* ------------------------------------------------------------- properties

Range(q) == {q[i] : i \in 1..Len(q)}
StageNames == [i \in 1..Len(Stages) |-> Stages[i].stageName]
ActionsOfStage(name) ==
    UNION {StageActions(i) : i \in {j \in 1..Len(Stages) : Stages[j].stageName = name}}
\* the actions producing the artifact of that name, with the index of their stage
Producers(name) ==
    UNION {{<<i, a.actionName>> : a \in {b \in StageActions(i) :
                                        name \in ArtifactNames(ActionOutputs(b))}}
           : i \in 1..Len(Stages)}
FrontendRan == SelectSeq(ran, LAMBDA r : r.action = "Frontend")
SyncCommand == "aws s3 sync dist/ s3://$BUCKET_NAME/ --delete"
InvalidateCommand ==
    "aws cloudfront create-invalidation --distribution-id $DISTRIBUTION_ID --paths \"/*\""
CopyCommand == "cp $CODEBUILD_SRC_DIR_BackendOutput/amplify_outputs.json ."

\* C1: the assembled pipeline has exactly the three stages Source,
\* DeployBackend, DeployFrontend, in this order, each with exactly one action.
C1_ThreeStagesInOrder ==
    pipeline # Undefined =>
        /\ StageNames = <<"Source", "DeployBackend", "DeployFrontend">>
        /\ \A i \in 1..Len(Stages) : Len(Stages[i].actions) = 1

\* C1 witness: a pipeline was assembled and an execution ran its three actions.
C1_Witness ==
    /\ pipeline # Undefined
    /\ completed = <<"GitHub", "Backend", "Frontend">>

\* C2: the build action of the DeployFrontend stage has SourceOutput as its
\* primary input, BackendOutput as its only extra input, and no output.
C2_FrontendActionInputs ==
    pipeline # Undefined =>
        /\ ActionsOfStage("DeployFrontend") # {}
        /\ \A a \in ActionsOfStage("DeployFrontend") :
            /\ a.kind = "CodeBuild"
            /\ a.input = [artifactName |-> "SourceOutput"]
            /\ "extraInputs" \in DOMAIN a
            /\ a.extraInputs = <<[artifactName |-> "BackendOutput"]>>
            /\ ActionOutputs(a) = <<>>

\* C2 witness: the frontend build runs with the checkout as its workspace and
\* the backend artifact in its secondary directory.
C2_Witness ==
    /\ build # Undefined
    /\ build[1].action = "Frontend"
    /\ "package.json" \in build[1].workspace
    /\ "CODEBUILD_SRC_DIR_BackendOutput" \in DOMAIN build[1].dirs
    /\ "amplify_outputs.json" \in build[1].dirs["CODEBUILD_SRC_DIR_BackendOutput"]

\* C3: in an execution the actions start in the order GitHub, Backend,
\* Frontend; Backend has not started unless GitHub completed, Frontend has not
\* started unless Backend completed and stored BackendOutput, and the running
\* frontend build holds that artifact through its extra input.
C3_StagesExecuteInSequence ==
    /\ \E n \in 0..3 : started = SubSeq(<<"GitHub", "Backend", "Frontend">>, 1, n)
    /\ "Backend" \in Range(started) => "GitHub" \in Range(completed)
    /\ "Frontend" \in Range(started) =>
            /\ "Backend" \in Range(completed)
            /\ "BackendOutput" \in DOMAIN store
    /\ (build # Undefined /\ build[1].action = "Frontend") =>
            /\ "CODEBUILD_SRC_DIR_BackendOutput" \in DOMAIN build[1].dirs
            /\ build[1].dirs["CODEBUILD_SRC_DIR_BackendOutput"] = store["BackendOutput"]

\* C3 witness: the frontend action has started in an execution.
C3_Witness ==
    /\ started = <<"GitHub", "Backend", "Frontend">>
    /\ completed = <<"GitHub", "Backend">>

C5_ArtifactFiles ==
    pipeline # Undefined =>
        /\ backendProject[1].buildSpec.artifacts.files = <<"amplify_outputs.json">>
        /\ "artifacts" \notin DOMAIN frontendProject[1].buildSpec
        /\ \A a \in ActionsOfStage("DeployFrontend") : ActionOutputs(a) = <<>>
        /\ "BackendOutput" \in DOMAIN store
                => store["BackendOutput"] = {"amplify_outputs.json"}

\* C5 witness: the backend build has stored its artifact and the frontend
\* build has completed without storing one.
C5_Witness ==
    /\ completed = <<"GitHub", "Backend", "Frontend">>
    /\ DOMAIN store = {"SourceOutput", "BackendOutput"}

\* C6: for every stack name s the backend project is named s-backend, the
\* frontend project s-frontend and the pipeline s-pipeline, whatever the
\* owner, repository and branch; the three names are pairwise distinct.
C6_Names ==
    pipelineProps # Undefined =>
        LET s == pipelineProps[1].stackName
            b == backendProject[1].projectName
            f == frontendProject[1].projectName
            p == pipeline[1].pipelineName
        IN  /\ b = s \o "-backend"
            /\ f = s \o "-frontend"
            /\ p = s \o "-pipeline"
            /\ s = "acme-site" =>
                /\ b = "acme-site-backend"
                /\ f = "acme-site-frontend"
                /\ p = "acme-site-pipeline"
            /\ b # f /\ b # p /\ f # p

\* C6 witness: definePipeline was called with the inputs of the example.
C6_Witness ==
    /\ pipelineProps # Undefined
    /\ pipelineProps[1].githubOwner = "acme"
    /\ pipelineProps[1].githubRepo = "site"
    /\ pipelineProps[1].githubBranch = "main"
    /\ pipelineProps[1].stackName = "acme-site"
    /\ pipeline[1].pipelineName = "acme-site-pipeline"

\* C7: whatever props defineFrontend is called with, the bucket blocks all
\* public access, is destroyed on teardown and has its objects deleted; the
\* props decide the bucket name and nothing else.
C7_BucketSettings ==
    \A k \in 1..Len(frontends) :
        LET bucket == frontends[k].bucket
            settings(b) == [b EXCEPT !.bucketName = Undefined, !.construct = Undefined]
        IN  /\ bucket.blockPublicAccess = "BLOCK_ALL"
            /\ bucket.removalPolicy = "DESTROY"
            /\ bucket.autoDeleteObjects = TRUE
            /\ bucket.bucketName
                 = (IF calls[k].props = Undefined THEN Undefined
                                                 ELSE calls[k].props[1].bucketName)
            /\ \A j \in 1..Len(frontends) :
                settings(frontends[j].bucket) = settings(bucket)

\* C7 witness: defineFrontend was called without props and with a bucket name.
C7_Witness ==
    /\ Len(frontends) = 2
    /\ calls[1].props = Undefined
    /\ frontends[2].bucket.bucketName = Some("my-site-bucket")

\* C8: the frontend project's policy grants read/write on the bucket of the
\* frontend descriptor and invalidation on its distribution alone, the same
\* bucket and distribution whose identifiers are BUCKET_NAME and
\* DISTRIBUTION_ID; no statement of it has the resource '*'.
C8_FrontendLeastPrivilege ==
    pipelineProps # Undefined =>
        LET f == pipelineProps[1].frontend
            project == frontendProject[1]
            policy == Range(project.rolePolicy)
            invalidation == {st \in policy :
                                "cloudfront:CreateInvalidation" \in Range(st.actions)}
            storage == {st \in policy : \E a \in Range(st.actions) : StartsWith(a, "s3:")}
            tokens == {part \in UNION {Range(r) : r \in UNION {Range(st.resources) : st \in policy}}
                        : IsToken(part)}
        IN  /\ f \in Range(frontends)
            /\ project.environmentVariables.BUCKET_NAME.value
                 = <<Token(f.bucket.construct, "bucketName")>>
            /\ project.environmentVariables.DISTRIBUTION_ID.value
                 = <<Token(f.distribution.construct, "distributionId")>>
            /\ Cardinality(invalidation) = 1
            /\ \A st \in invalidation :
                /\ st.actions = <<"cloudfront:CreateInvalidation">>
                /\ Len(st.resources) = 1
                /\ st.resources[1][Len(st.resources[1])]
                     = Token(f.distribution.construct, "distributionId")
            /\ storage # {}
            /\ \A st \in storage : \A r \in Range(st.resources) :
                r[1] = Token(f.bucket.construct, "bucketArn")
            /\ policy = invalidation \cup storage
            /\ \A st \in policy : \A r \in Range(st.resources) : r # <<Lit("*")>>
            /\ \A t \in tokens :
                t.ref \in {f.bucket.construct, f.distribution.construct, PipelineStack}
            /\ <<Lit("*")>> \in Range(backendProject[1].rolePolicy[1].resources)

\* C8 witness: the pipeline was given the second of two frontend descriptors.
C8_Witness ==
    /\ pipelineProps # Undefined
    /\ Len(frontends) = 2
    /\ pipelineProps[1].frontend.bucket.construct.stack = FrontendStack(2)
    /\ frontends[1] # frontends[2]

\* C9: the commands of a frontend build run in the order install, copy and
\* echo of the backend outputs, site build, bucket synchronization, cache
\* invalidation: what has run is a prefix of that list, so the synchronization
\* follows the site build and the invalidation follows the synchronization.
C9_FrontendCommandOrder ==
    LET expected == << [phase |-> "install",    command |-> "npm ci"],
                       [phase |-> "pre_build",  command |-> CopyCommand],
                       [phase |-> "pre_build",  command |-> "cat amplify_outputs.json"],
                       [phase |-> "build",      command |-> "npm run build"],
                       [phase |-> "post_build", command |-> SyncCommand],
                       [phase |-> "post_build", command |-> InvalidateCommand] >>
        n == Len(FrontendRan)
    IN  /\ n <= Len(expected)
        /\ \A i \in 1..n :
            /\ FrontendRan[i].phase = expected[i].phase
            /\ FrontendRan[i].command = expected[i].command
        /\ \A i \in 1..n : FrontendRan[i].command = SyncCommand =>
                \E j \in 1..(i - 1) : FrontendRan[j].command = "npm run build"
        /\ \A i \in 1..n : FrontendRan[i].command = InvalidateCommand =>
                \E j \in 1..(i - 1) : FrontendRan[j].command = SyncCommand /\ FrontendRan[j].ok

\* C9 witness: a frontend build has run all its commands, the invalidation last.
C9_Witness ==
    /\ Len(FrontendRan) = 6
    /\ FrontendRan[6].command = InvalidateCommand
    /\ \A i \in 1..6 : FrontendRan[i].ok

\* C10: SourceOutput and BackendOutput each have exactly one producing action;
\* every input of an action is produced in a strictly earlier stage; the file
\* the frontend build copies in pre_build is a file the backend build declares
\* as its artifact, taken from the directory of the extra input BackendOutput,
\* so that the copy finds the file in every frontend build that reaches it.
C10_ArtifactGraph ==
    pipeline # Undefined =>
        /\ \A name \in {"SourceOutput", "BackendOutput"} :
            Cardinality(Producers(name)) = 1
        /\ \A i \in 1..Len(Stages) : \A a \in StageActions(i) :
            \A name \in ArtifactNames(ActionInputs(a)) :
                \E pr \in Producers(name) : pr[1] < i
        /\ LET pre == frontendProject[1].buildSpec.phases.pre_build.commands
               copies == {c \in Range(pre) : Words(c)[1] = "cp"}
           IN  /\ copies # {}
               /\ \A c \in copies : \A a \in ActionsOfStage("DeployFrontend") :
                    LET src == VarPath(Words(c)[2])
                    IN  /\ src.file = "amplify_outputs.json"
                        /\ src.file \in ArtifactFiles(backendProject[1].buildSpec)
                        /\ \E x \in Range(a.extraInputs) :
                            /\ x.artifactName = "BackendOutput"
                            /\ src.var = "CODEBUILD_SRC_DIR_" \o x.artifactName
                            /\ \E pr \in Producers(x.artifactName) : pr[2] = "Backend"
        /\ (/\ build # Undefined
            /\ build[1].action = "Frontend"
            /\ build[1].remaining # <<>>
            /\ Head(build[1].remaining).command = CopyCommand)
                => CanRun(CopyCommand, build[1])

\* C10 witness: the frontend build has copied the backend's outputs file.
C10_Witness ==
    /\ build # Undefined
    /\ build[1].action = "Frontend"
    /\ \E i \in 1..Len(FrontendRan) :
        FrontendRan[i].command = CopyCommand /\ FrontendRan[i].ok
    /\ "amplify_outputs.json" \in build[1].workspace

====
